---- MODULE Spec2Model ----
(***************************************************************************)
(* LZ77 token compressor / decompressor of lz4-rs (src/lz77.rs) and its    *)
(* sliding-window match index (src/matchmap.rs).                           *)
(*                                                                         *)
(* Positions are 0-based as in the source; TLA+ sequences are 1-based, so  *)
(* the byte at source position p of a buffer s is s[p + 1].                *)
(***************************************************************************)
EXTENDS Integers, Sequences, FiniteSets, TLC

(***************************************************************************)
(* Bounds of the model.                                                    *)
(***************************************************************************)
\* width of usize in bits
UsizeBits == 4
\* bytes are 0..MaxByte
MaxByte == 1
\* longest input buffer given to compress
MaxLen == 5
\* largest max_match_offset / min_match_len / end_literals tried
MaxMatchOffset == 3
MaxMinMatch == 2
MaxEndLit == 1
\* longest token sequence given directly to decompress
MaxTokens == 3
\* small offsets and lengths of the tokens given directly to decompress
\* (usize::MAX is always added, see TokenNumbers)
MaxTokenField == 1
\* largest max_output_len tried besides usize::MAX
MaxOutputLen == 5
\* largest position given directly to MatchMap::add_prefix / advance
MaxPosition == 4
\* most calls of Compressor::reset on one Compressor
MaxResets == 1
\* longest input of a Compressor that is reset
MaxResetLen == 3
\* longest input of a Compressor that is re-driven and decompressed
MaxRedriveLen == 3

RECURSIVE Pow2(_)
Pow2(n) == IF n = 0 THEN 1 ELSE 2 * Pow2(n - 1)

\* usize::MAX and isize::MAX (the largest capacity a Vec<u8> can have)
UsizeMax == Pow2(UsizeBits) - 1
IsizeMax == Pow2(UsizeBits - 1) - 1

Bytes == 0..MaxByte

RECURSIVE SeqsUpTo(_, _)
SeqsUpTo(S, n) ==
    IF n = 0 THEN {<<>>}
    ELSE LET shorter == SeqsUpTo(S, n - 1)
         IN  shorter \cup {Append(s, x) : s \in {t \in shorter : Len(t) = n - 1}, x \in S}

(***************************************************************************)
(* Option<T>: None is the empty sequence, Some(x) the one-element one.     *)
(***************************************************************************)
None == <<>>
Some(x) == <<x>>

(***************************************************************************)
(* Token                                                                   *)
(***************************************************************************)
Literal(b) == [type |-> "Literal", byte |-> b]

new_match(offset, length) == [type |-> "Match", offset |-> offset, length |-> length]

\* token_len that counts every token as one byte
token_len_one(t) == 1

token_len(t) == IF t.type = "Literal" THEN 1 ELSE t.length

(***************************************************************************)
(* usize arithmetic.  An overflowing + or - panics when the build has      *)
(* overflow checks (debug) and wraps modulo 2^UsizeBits otherwise          *)
(* (release); both builds are modelled (variable overflow_checks).         *)
(***************************************************************************)
wrapping_add(a, b) == (a + b) % (UsizeMax + 1)
wrapping_sub(a, b) == (a - b) % (UsizeMax + 1)
saturating_sub(a, b) == IF a >= b THEN a - b ELSE 0

(***************************************************************************)
(* MatchMap: [entries: queue of <<key, position>>, matches: key -> position,*)
(* max_match_offset].                                                      *)
(***************************************************************************)
EmptyMap == [k \in {} |-> 0]

MatchMap_new(max_match_offset) ==
    [entries |-> <<>>, matches |-> EmptyMap, max_match_offset |-> max_match_offset]

\* entries.iter().take_while(|(_, wh)| *wh < cull_idx).count()
RECURSIVE take_while_count(_, _)
take_while_count(entries, cull_idx) ==
    IF entries # <<>> /\ Head(entries)[2] < cull_idx
    THEN 1 + take_while_count(Tail(entries), cull_idx)
    ELSE 0

HashMap_remove(m, key) == [k \in (DOMAIN m) \ {key} |-> m[k]]

HashMap_insert(m, key, v) == [k \in (DOMAIN m) \cup {key} |-> IF k = key THEN v ELSE m[k]]

\* the closure without the test of the mapping's value
cull_entry_always(m, f, cull_idx) ==
    IF f[1] \in DOMAIN m THEN HashMap_remove(m, f[1]) ELSE m

\* the closure with <= for <
cull_entry_le(m, f, cull_idx) ==
    IF f[1] \in DOMAIN m
    THEN IF m[f[1]] <= cull_idx THEN HashMap_remove(m, f[1]) ELSE m
    ELSE m

\* the closure run by for_each on every drained entry f
cull_entry(m, f, cull_idx) ==
    IF f[1] \in DOMAIN m
    THEN IF m[f[1]] < cull_idx THEN HashMap_remove(m, f[1]) ELSE m
    ELSE m

\* entries.drain(..n).for_each(...): the drained entries, front first
RECURSIVE drain_for_each(_, _, _)
drain_for_each(m, drained, cull_idx) ==
    IF drained = <<>> THEN m
    ELSE drain_for_each(cull_entry(m, Head(drained), cull_idx), Tail(drained), cull_idx)

\* advance that drains the queue but forgets matches.remove
MatchMap_advance_keep(mm, new_idx) ==
    LET cull_idx == saturating_sub(new_idx, mm.max_match_offset)
        elems_to_remove == take_while_count(mm.entries, cull_idx)
    IN  [mm EXCEPT
           !.entries = SubSeq(mm.entries, elems_to_remove + 1, Len(mm.entries))]

MatchMap_advance(mm, new_idx) ==
    LET cull_idx == saturating_sub(new_idx, mm.max_match_offset)
        elems_to_remove == take_while_count(mm.entries, cull_idx)
    IN  [mm EXCEPT
           !.entries = SubSeq(mm.entries, elems_to_remove + 1, Len(mm.entries)),
           !.matches = drain_for_each(mm.matches,
                                      SubSeq(mm.entries, 1, elems_to_remove), cull_idx)]

MatchMap_get_match(mm, item) ==
    IF item \in DOMAIN mm.matches THEN Some(mm.matches[item]) ELSE None

\* add_prefix that keeps the first position recorded for a key
MatchMap_add_prefix_first(mm, item, idx) ==
    [mm EXCEPT !.matches = IF item \in DOMAIN mm.matches THEN mm.matches
                           ELSE HashMap_insert(mm.matches, item, idx),
               !.entries = Append(mm.entries, <<item, idx>>)]

MatchMap_add_prefix(mm, item, idx) ==
    [mm EXCEPT !.matches = HashMap_insert(mm.matches, item, idx),
               !.entries = Append(mm.entries, <<item, idx>>)]

\* &data[from..to]
Slice(data, from, to) == SubSeq(data, from + 1, to)

(***************************************************************************)
(* State.                                                                  *)
(*   Compressor: data, idx, matches (its MatchMap), settings; emitted is   *)
(*   the token sequence collected so far, each token with the cursor       *)
(*   position it was produced at; cstate is the state of the iteration.    *)
(*   Decompressor: source (tokens not yet consumed), output_buf,           *)
(*   max_output_len (its settings); copy_idx / copy_end are the range of   *)
(*   the copy loop, dstate the position in decompress, result what         *)
(*   decompress returned.  tokens is the sequence decompress was called    *)
(*   with; cur is the token whose arm ran last, with the output length it  *)
(*   was met at.  overflow_checks tells the build (debug / release).       *)
(*   rewinds records the calls of Compressor::reset (the cursor each was   *)
(*   made at, and whether next() had returned None); emitted is then the   *)
(*   collection of the pass that follows.  calls records what the          *)
(*   add_prefix / advance calls made directly on a MatchMap were.          *)
(***************************************************************************)
VARIABLES data, idx, matches, settings, emitted, cstate, rewinds, calls,
          tokens, source, output_buf, max_output_len, copy_idx, copy_end,
          cur, dstate, result, overflow_checks

cvars == <<data, idx, matches, settings, emitted, cstate, rewinds, calls>>
dvars == <<tokens, source, output_buf, max_output_len, copy_idx, copy_end,
           cur, dstate, result>>
vars == <<data, idx, matches, settings, emitted, cstate, rewinds, calls,
          tokens, source, output_buf, max_output_len, copy_idx, copy_end,
          cur, dstate, result, overflow_checks>>

(***************************************************************************)
(* Compressor                                                              *)
(***************************************************************************)
\* zip(data[idx..], data[match_idx..]).take_while(a == b).count(), from k on
RECURSIVE zip_take_while_count(_, _, _, _)
zip_take_while_count(d, i, match_idx, k) ==
    IF /\ i + k < Len(d)
       /\ match_idx + k < Len(d)
       /\ d[i + k + 1] = d[match_idx + k + 1]
    THEN 1 + zip_take_while_count(d, i, match_idx, k + 1)
    ELSE 0

\* determine_match_length that also counts the first mismatch
determine_match_length_long(d, i, match_idx) ==
    zip_take_while_count(d, i, match_idx, 0) + 1

\* determine_match_length that compares against data[match_idx + 1..]
determine_match_length_shifted(d, i, match_idx) ==
    zip_take_while_count(d, i, match_idx + 1, 0)

\* determine_match_length that stops where the source reaches the cursor
determine_match_length_capped(d, i, match_idx) ==
    LET n == zip_take_while_count(d, i, match_idx, 0)
    IN  IF n > i - match_idx THEN i - match_idx ELSE n

determine_match_length(d, i, match_idx) == zip_take_while_count(d, i, match_idx, 0)

\* the subtraction self.idx - i of get_match overflows
get_match_overflows(d, i, mm, st) ==
    LET dist_from_end == Len(d) - i
    IN  /\ dist_from_end > st.min_match_len
        /\ dist_from_end > st.end_literals
        /\ LET match_idx == MatchMap_get_match(mm, Slice(d, i, i + st.min_match_len))
           IN  match_idx # None /\ match_idx[1] > i

Compressor_get_match(d, i, mm, st) ==
    LET dist_from_end == Len(d) - i
    IN  IF dist_from_end > st.min_match_len /\ dist_from_end > st.end_literals
        THEN LET match_idx == MatchMap_get_match(mm, Slice(d, i, i + st.min_match_len))
             IN  IF match_idx = None THEN None
                 ELSE Some(new_match(wrapping_sub(i, match_idx[1]),
                                     determine_match_length(d, i, match_idx[1])))
        ELSE None

\* the token next() produces at cursor i (None at the end of the input)
next_out(d, i, mm, st) ==
    IF i >= Len(d) THEN None
    ELSE LET m == Compressor_get_match(d, i, mm, st)
         IN  IF m # None THEN m ELSE Some(Literal(d[i + 1]))

\* the MatchMap after the add_prefix of next()
next_add_prefix(d, i, mm, st) ==
    IF saturating_sub(Len(d), i) > st.min_match_len
    THEN MatchMap_add_prefix(mm, Slice(d, i, i + st.min_match_len), i)
    ELSE mm

\* Iterator::next, driven by collect() in compress
CompressorNext ==
    /\ cstate = "running"
    /\ IF idx < Len(data) /\ overflow_checks /\ get_match_overflows(data, idx, matches, settings)
       THEN /\ cstate' = "panic"
            /\ UNCHANGED <<idx, matches, emitted>>
       ELSE LET out == next_out(data, idx, matches, settings)
                added == next_add_prefix(data, idx, matches, settings)
            IN  IF out = None
                THEN /\ cstate' = "done"
                     /\ matches' = added
                     /\ UNCHANGED <<idx, emitted>>
                ELSE /\ idx' = idx + token_len(out[1])
                     /\ matches' = MatchMap_advance(added, idx + token_len(out[1]))
                     /\ emitted' = Append(emitted, [token |-> out[1], at |-> idx])
                     /\ cstate' = "running"
    /\ UNCHANGED <<data, settings, rewinds, calls, overflow_checks>>
    /\ UNCHANGED dvars

\* the Vec<Token> compress returns
Collected == [k \in 1..Len(emitted) |-> emitted[k].token]

(***************************************************************************)
(* Decompressor                                                            *)
(***************************************************************************)
\* Vec::push panics (capacity overflow) once the length is isize::MAX
Vec_push_ok(buf) == Len(buf) < IsizeMax

\* the Literal arm: what it decides at output length len
literal_arm(len, max) ==
    IF len + 1 > max THEN "MaximumSizeExceeded" ELSE "push"

\* match_arm with the size check before the offset check
match_arm_size_first(len, offset, length, max, oc) ==
    IF oc /\ len + length > UsizeMax
    THEN [kind |-> "panic"]
    ELSE IF wrapping_add(len, length) > max
    THEN [kind |-> "MaximumSizeExceeded"]
    ELSE IF offset > len
    THEN [kind |-> "InvalidOffset"]
    ELSE LET copy_start == len - offset
         IN  [kind |-> "copy", copy_start |-> copy_start,
              copy_end |-> wrapping_add(copy_start, length)]

\* the Match arm up to the copy loop: what its checks decide at output
\* length len, and the range of the loop
match_arm(len, offset, length, max, oc) ==
    IF offset > len
    THEN [kind |-> "InvalidOffset"]
    ELSE IF oc /\ len + length > UsizeMax
    THEN [kind |-> "panic"]
    ELSE IF wrapping_add(len, length) > max
    THEN [kind |-> "MaximumSizeExceeded"]
    ELSE LET copy_start == len - offset
         IN  IF oc /\ copy_start + length > UsizeMax
             THEN [kind |-> "panic"]
             ELSE [kind |-> "copy", copy_start |-> copy_start,
                   copy_end |-> wrapping_add(copy_start, length)]

Finish(r) ==
    /\ result' = r
    /\ dstate' = "done"

\* one iteration of `for token in self.source`, up to the copy loop
DecompressorToken ==
    /\ dstate = "fetch"
    /\ source # <<>>
    /\ source' = Tail(source)
    /\ LET token == Head(source)
           len == Len(output_buf)
       IN  IF token.type = "Literal"
           THEN IF literal_arm(len, max_output_len) = "MaximumSizeExceeded"
                THEN /\ Finish([kind |-> "MaximumSizeExceeded"])
                     /\ UNCHANGED <<output_buf, cur, copy_idx, copy_end>>
                ELSE IF ~Vec_push_ok(output_buf)
                THEN /\ Finish([kind |-> "panic", why |-> "capacity overflow"])
                     /\ UNCHANGED <<output_buf, cur, copy_idx, copy_end>>
                ELSE /\ output_buf' = Append(output_buf, token.byte)
                     /\ cur' = Some([token |-> token, n |-> len])
                     /\ UNCHANGED <<dstate, result, copy_idx, copy_end>>
           ELSE LET m == match_arm(len, token.offset, token.length,
                                   max_output_len, overflow_checks)
                IN  /\ UNCHANGED output_buf
                    /\ CASE m.kind = "InvalidOffset" ->
                              /\ Finish([kind |-> "InvalidOffset", idx |-> len,
                                         offset |-> token.offset])
                              /\ UNCHANGED <<copy_idx, copy_end, cur>>
                         [] m.kind = "MaximumSizeExceeded" ->
                              /\ Finish([kind |-> "MaximumSizeExceeded"])
                              /\ UNCHANGED <<copy_idx, copy_end, cur>>
                         [] m.kind = "panic" ->
                              /\ Finish([kind |-> "panic", why |-> "add with overflow"])
                              /\ UNCHANGED <<copy_idx, copy_end, cur>>
                         [] m.kind = "copy" ->
                              /\ copy_idx' = m.copy_start
                              /\ copy_end' = m.copy_end
                              /\ cur' = Some([token |-> token, n |-> len])
                              /\ dstate' = IF m.copy_start < m.copy_end THEN "copy" ELSE "fetch"
                              /\ UNCHANGED result
    /\ UNCHANGED <<tokens, max_output_len, overflow_checks>>
    /\ UNCHANGED cvars

\* one iteration of `for idx in copy_start..copy_end`
DecompressorCopy ==
    /\ dstate = "copy"
    /\ IF copy_idx >= Len(output_buf)
       THEN /\ Finish([kind |-> "panic", why |-> "index out of bounds"])
            /\ UNCHANGED <<output_buf, copy_idx>>
       ELSE IF ~Vec_push_ok(output_buf)
       THEN /\ Finish([kind |-> "panic", why |-> "capacity overflow"])
            /\ UNCHANGED <<output_buf, copy_idx>>
       ELSE /\ output_buf' = Append(output_buf, output_buf[copy_idx + 1])
            /\ copy_idx' = copy_idx + 1
            /\ dstate' = IF copy_idx + 1 < copy_end THEN "copy" ELSE "fetch"
            /\ UNCHANGED result
    /\ UNCHANGED <<tokens, source, max_output_len, copy_end, cur, overflow_checks>>
    /\ UNCHANGED cvars

\* the source is exhausted: Ok(self.output_buf)
DecompressorReturn ==
    /\ dstate = "fetch"
    /\ source = <<>>
    /\ Finish([kind |-> "Ok", buf |-> output_buf])
    /\ UNCHANGED <<tokens, source, output_buf, max_output_len, copy_idx, copy_end,
                   cur, overflow_checks>>
    /\ UNCHANGED cvars

\* the values of DecompressionSettings.max_output_len that are tried
OutputLens == (0..MaxOutputLen) \cup {UsizeMax}

\* decompress(res.into_iter(), settings) on what compress returned
DecompressCollected ==
    /\ cstate = "done"
    /\ dstate = "idle"
    /\ tokens' = Collected
    /\ source' = Collected
    /\ max_output_len' \in OutputLens
    /\ dstate' = "fetch"
    /\ UNCHANGED <<output_buf, copy_idx, copy_end, cur, result, overflow_checks>>
    /\ UNCHANGED cvars

(***************************************************************************)
(* Specifications.                                                         *)
(***************************************************************************)
SettingsSet ==
    [max_match_offset : 0..MaxMatchOffset,
     min_match_len : 1..MaxMinMatch,
     end_literals : 0..MaxEndLit]

\* no call has been made directly on the MatchMap
NoCalls ==
    [recorded |-> EmptyMap, last_add |-> None, last_advance |-> None,
     after_advance |-> FALSE, monotone |-> TRUE]

DecompressorNew ==
    /\ output_buf = <<>>
    /\ copy_idx = 0
    /\ copy_end = 0
    /\ cur = None
    /\ result = [kind |-> "none"]

\* compress(data, settings), then decompress of its result
Init ==
    /\ data \in SeqsUpTo(Bytes, MaxLen)
    /\ settings \in SettingsSet
    /\ idx = 0
    /\ matches = MatchMap_new(settings.max_match_offset)
    /\ emitted = <<>>
    /\ cstate = "running"
    /\ rewinds = <<>>
    /\ calls = NoCalls
    /\ tokens = <<>>
    /\ source = <<>>
    /\ max_output_len = 0
    /\ dstate = "idle"
    /\ DecompressorNew
    /\ overflow_checks \in BOOLEAN

Next ==
    \/ CompressorNext
    \/ DecompressCollected
    \/ DecompressorToken
    \/ DecompressorCopy
    \/ DecompressorReturn

Spec == Init /\ [][Next]_vars

\* decompress of any token sequence
TokenNumbers == (0..MaxTokenField) \cup {UsizeMax}

Tokens ==
    {Literal(b) : b \in Bytes}
      \cup {new_match(o, l) : o \in TokenNumbers, l \in TokenNumbers}

DecInit ==
    /\ data = <<>>
    /\ settings = [max_match_offset |-> 0, min_match_len |-> 1, end_literals |-> 0]
    /\ idx = 0
    /\ matches = MatchMap_new(0)
    /\ emitted = <<>>
    /\ cstate = "none"
    /\ rewinds = <<>>
    /\ calls = NoCalls
    /\ tokens \in SeqsUpTo(Tokens, MaxTokens)
    /\ source = tokens
    /\ max_output_len \in OutputLens
    /\ dstate = "fetch"
    /\ DecompressorNew
    /\ overflow_checks \in BOOLEAN

DecNext ==
    \/ DecompressorToken
    \/ DecompressorCopy
    \/ DecompressorReturn

DecSpec == DecInit /\ [][DecNext]_vars

\* a MatchMap driven directly: add_prefix with strictly increasing
\* positions and advance with any position, in any order
Keys == {<<b>> : b \in Bytes}

Positions == 0..MaxPosition

MapAddPrefix ==
    /\ cstate = "none"
    /\ dstate = "idle"
    /\ \E item \in Keys, p \in Positions :
          /\ calls.last_add # None => p > calls.last_add[1]
          /\ matches' = MatchMap_add_prefix(matches, item, p)
          /\ calls' = [calls EXCEPT !.recorded = HashMap_insert(@, item, p),
                                    !.last_add = Some(p),
                                    !.after_advance = FALSE]
    /\ UNCHANGED <<data, idx, settings, emitted, cstate, rewinds, overflow_checks>>
    /\ UNCHANGED dvars

MapAdvance ==
    /\ cstate = "none"
    /\ dstate = "idle"
    /\ \E new_idx \in Positions :
          /\ matches' = MatchMap_advance(matches, new_idx)
          /\ calls' = [calls EXCEPT
                          !.last_advance = Some(new_idx),
                          !.after_advance = TRUE,
                          !.monotone = /\ @
                                       /\ calls.last_advance # None
                                             => new_idx >= calls.last_advance[1]]
    /\ UNCHANGED <<data, idx, settings, emitted, cstate, rewinds, overflow_checks>>
    /\ UNCHANGED dvars

MapInit ==
    /\ data = <<>>
    /\ settings \in {st \in SettingsSet : st.min_match_len = 1 /\ st.end_literals = 0}
    /\ idx = 0
    /\ matches = MatchMap_new(settings.max_match_offset)
    /\ emitted = <<>>
    /\ cstate = "none"
    /\ rewinds = <<>>
    /\ calls = NoCalls
    /\ tokens = <<>>
    /\ source = <<>>
    /\ max_output_len = 0
    /\ dstate = "idle"
    /\ DecompressorNew
    /\ overflow_checks = FALSE

MapNext ==
    \/ MapAddPrefix
    \/ MapAdvance

MapSpec == MapInit /\ [][MapNext]_vars

\* compress alone: next() called by collect() until it returns None
CompSpec == Init /\ [][CompressorNext]_vars

(***************************************************************************)
(* Compressor::reset, and a Compressor driven by next() and reset() in any *)
(* order.  rewinds records, per reset, where the cursor was and whether    *)
(* next() had returned None; emitted restarts with each pass.              *)
(***************************************************************************)
\* reset that also empties the MatchMap
Compressor_reset_clear(i, mm) ==
    [idx |-> 0, matches |-> [mm EXCEPT !.entries = <<>>, !.matches = EmptyMap]]

\* the fields of the Compressor after reset()
Compressor_reset(i, mm) == [idx |-> 0, matches |-> mm]

CompressorReset ==
    /\ cstate \in {"running", "done"}
    /\ dstate = "idle"
    /\ Len(rewinds) < MaxResets
    /\ LET after == Compressor_reset(idx, matches)
       IN  /\ idx' = after.idx
           /\ matches' = after.matches
    /\ rewinds' = Append(rewinds, [at |-> idx, done |-> cstate = "done"])
    /\ emitted' = <<>>
    /\ cstate' = "running"
    /\ UNCHANGED <<data, settings, calls, overflow_checks>>
    /\ UNCHANGED dvars

ResetNext ==
    \/ CompressorNext
    \/ CompressorReset

ResetInit == Init /\ Len(data) <= MaxResetLen

ResetSpec == ResetInit /\ [][ResetNext]_vars

\* reset() once next() has returned None
RewindAtEnd == cstate = "done" /\ CompressorReset

\* a Compressor driven to the end, rewound and driven again; the tokens of
\* the last pass are given to decompress
RedriveInit == Init /\ Len(data) <= MaxRedriveLen

RedriveNext ==
    \/ CompressorNext
    \/ RewindAtEnd
    \/ DecompressCollected
    \/ DecompressorToken
    \/ DecompressorCopy
    \/ DecompressorReturn

RedriveSpec == RedriveInit /\ [][RedriveNext]_vars

(***************************************************************************)
(* Helpers of the properties.                                              *)
(***************************************************************************)
\* the tokens decompress has taken from its source so far
Consumed == Len(tokens) - Len(source)

\* the sum of the lengths of the first k tokens, as a mathematical integer
RECURSIVE TokensLen(_, _)
TokensLen(ts, k) == IF k = 0 THEN 0 ELSE TokensLen(ts, k - 1) + token_len(ts[k])

IsMatch(t) == t.type = "Match"

\* decompress has returned a value (not panicked)
Returned == dstate = "done" /\ result.kind # "panic"

(***************************************************************************)
(* C1  Round trip: when max_output_len is at least the length of the input,*)
(* compress never fails and decompress of the tokens compress returned     *)
(* ends with Ok(buffer) where buffer is exactly the input.                 *)
(***************************************************************************)
RoundTrip ==
    /\ cstate # "panic"
    /\ (dstate = "done" /\ max_output_len >= Len(data))
         => (result.kind = "Ok" /\ result.buf = data)

\* a round trip through a self-overlapping match, at the exact size limit
RoundTripWitness ==
    /\ dstate = "done"
    /\ result.kind = "Ok"
    /\ result.buf = data
    /\ max_output_len = Len(data)
    /\ \E k \in 1..Len(tokens) :
          /\ IsMatch(tokens[k])
          /\ tokens[k].length > tokens[k].offset
          /\ k < Len(tokens)

(***************************************************************************)
(* C2  decompress of any token sequence ends with a completed buffer,      *)
(* InvalidOffset or MaximumSizeExceeded, and never aborts in another way.  *)
(***************************************************************************)
DecompressNeverAborts ==
    dstate = "done" => result.kind \in {"Ok", "InvalidOffset", "MaximumSizeExceeded"}

(***************************************************************************)
(* C3  Fail-fast on bad offset: the step that takes a Match token whose    *)
(* offset is greater than the current output length ends decompress with   *)
(* InvalidOffset carrying that length and that offset, whatever the        *)
(* token's length.                                                         *)
(***************************************************************************)
BadOffsetNext ==
    /\ dstate = "fetch"
    /\ source # <<>>
    /\ IsMatch(Head(source))
    /\ Head(source).offset > Len(output_buf)

InvalidOffsetFailFast ==
    [][BadOffsetNext =>
          /\ dstate' = "done"
          /\ result' = [kind |-> "InvalidOffset", idx |-> Len(output_buf),
                        offset |-> Head(source).offset]]_vars

\* a bad offset met after some output, on a token whose length alone would
\* exceed max_output_len
InvalidOffsetWitness ==
    /\ dstate = "done"
    /\ result.kind = "InvalidOffset"
    /\ result.idx >= 1
    /\ Consumed >= 2
    /\ tokens[Consumed].length > max_output_len
    /\ tokens[Consumed].offset = result.offset

(***************************************************************************)
(* C4  Exact boundary on size: for a token sequence whose Match offsets    *)
(* are all valid (1 <= offset <= bytes reconstructed so far), decompress   *)
(* fails with MaximumSizeExceeded at the first token that takes the sum of *)
(* the token lengths above max_output_len, and succeeds with all the       *)
(* bytes when no token does.                                               *)
(***************************************************************************)
Over(k) == TokensLen(tokens, k) > max_output_len

FirstOver == CHOOSE k \in 1..Len(tokens) : Over(k) /\ \A j \in 1..(k - 1) : ~Over(j)

ValidOffsets(n) ==
    \A k \in 1..n :
        IsMatch(tokens[k]) =>
            /\ tokens[k].offset >= 1
            /\ tokens[k].offset <= TokensLen(tokens, k - 1)

SizeBoundaryExact ==
    dstate = "done" =>
        IF \E k \in 1..Len(tokens) : Over(k)
        THEN ValidOffsets(FirstOver) =>
                 /\ result.kind = "MaximumSizeExceeded"
                 /\ Consumed = FirstOver
        ELSE ValidOffsets(Len(tokens)) =>
                 /\ result.kind = "Ok"
                 /\ Len(result.buf) = TokensLen(tokens, Len(tokens))

(***************************************************************************)
(* C5  Output ceiling: in every state of decompress, also in the middle of *)
(* a match copy, the output buffer holds at most max_output_len bytes.     *)
(***************************************************************************)
OutputCeiling ==
    dstate \in {"fetch", "copy", "done"} => Len(output_buf) <= max_output_len

(***************************************************************************)
(* C6  Replay semantics: once the arm of a token met at output length n    *)
(* has run to its end, a Literal(b) has appended exactly b and a           *)
(* Match{offset, length} exactly length bytes with                         *)
(* output[n+k] = output[n+k-offset] for every 0 <= k < length.             *)
(***************************************************************************)
ArmCompleted ==
    /\ cur # None
    /\ \/ dstate = "fetch"
       \/ dstate = "done" /\ result.kind = "Ok"

ReplaySemantics ==
    ArmCompleted =>
        LET t == cur[1].token
            n == cur[1].n
        IN  IF t.type = "Literal"
            THEN /\ Len(output_buf) = n + 1
                 /\ output_buf[n + 1] = t.byte
            ELSE /\ Len(output_buf) = n + t.length
                 /\ \A k \in 0..(t.length - 1) :
                       output_buf[n + k + 1] = output_buf[n + k - t.offset + 1]

(***************************************************************************)
(* C7  Trailing-literal guard: no Match emitted by compress covers any of  *)
(* the last end_literals positions of the input.                           *)
(***************************************************************************)
TrailingLiterals ==
    \A k \in 1..Len(emitted) :
        IsMatch(emitted[k].token) =>
            emitted[k].at + emitted[k].token.length <= Len(data) - settings.end_literals

(***************************************************************************)
(* C8  Compression is total and terminates: no step fails, every step that *)
(* emits a token advances the cursor by at least 1 (so at most Len(data)   *)
(* tokens are emitted), next() returns None exactly at the end of the      *)
(* input, and every step decreases the variant Len(data) - idx (+ 1 while  *)
(* running), which is never negative: the end is reached after at most     *)
(* Len(data) + 1 calls of next().                                          *)
(***************************************************************************)
Variant == (Len(data) - idx) + (IF cstate = "running" THEN 1 ELSE 0)

CompressionTotal ==
    /\ [][/\ Variant' < Variant
          /\ emitted' # emitted => idx' >= idx + 1]_vars
    /\ [](/\ cstate \in {"running", "done"}
          /\ Variant >= 0
          /\ idx <= Len(data)
          /\ Len(emitted) <= idx
          /\ cstate = "done" => idx = Len(data))

\* the end of a non-trivial input, reached with a match on the way
CompressionTotalWitness ==
    /\ cstate = "done"
    /\ idx = Len(data)
    /\ Len(data) >= 4
    /\ \E k \in 1..Len(emitted) : IsMatch(emitted[k].token)
    /\ \E k \in 1..Len(emitted) : ~IsMatch(emitted[k].token) /\ emitted[k].at > 1

(***************************************************************************)
(* C9  Match well-formedness: every Match emitted has offset >= 1,         *)
(* length >= min_match_len and offset <= the cursor it was emitted at.     *)
(***************************************************************************)
MatchWellFormed ==
    \A k \in 1..Len(emitted) :
        IsMatch(emitted[k].token) =>
            /\ emitted[k].token.offset >= 1
            /\ emitted[k].token.length >= settings.min_match_len
            /\ emitted[k].token.offset <= emitted[k].at

\* a Match of the minimal length that reaches back to position 0
MatchWellFormedWitness ==
    \E k \in 1..Len(emitted) :
        /\ IsMatch(emitted[k].token)
        /\ emitted[k].token.length = settings.min_match_len
        /\ settings.min_match_len >= 2
        /\ emitted[k].token.offset = emitted[k].at

(***************************************************************************)
(* C10  Window bound: every Match emitted has offset <= max_match_offset.  *)
(***************************************************************************)
WindowBound ==
    \A k \in 1..Len(emitted) :
        IsMatch(emitted[k].token) =>
            emitted[k].token.offset <= settings.max_match_offset

\* the min_match_len-byte window at position p of the input
KeyAt(p) == Slice(data, p, p + settings.min_match_len)

\* a Match at the full window distance, and a Literal emitted where a match
\* was attempted and the only earlier occurrences of the key were out of
\* the window
WindowBoundWitness ==
    /\ settings.max_match_offset >= 1
    /\ \E k \in 1..Len(emitted) :
          /\ IsMatch(emitted[k].token)
          /\ emitted[k].token.offset = settings.max_match_offset
    /\ \E k \in 1..Len(emitted) :
          LET a == emitted[k].at
          IN  /\ ~IsMatch(emitted[k].token)
              /\ Len(data) - a > settings.min_match_len
              /\ Len(data) - a > settings.end_literals
              /\ \E j \in 1..(k - 1) :
                    /\ KeyAt(emitted[j].at) = KeyAt(a)
                    /\ a - emitted[j].at > settings.max_match_offset

(***************************************************************************)
(* C11  Fail-fast ordering: when some token of the sequence violates a     *)
(* check (offset > bytes reconstructed so far, or bytes so far + token     *)
(* length > max_output_len), decompress ends at the first such token, with *)
(* that token's error and no buffer, having consumed no later token.       *)
(* (The tokens before it have valid offsets, 1 <= offset <= bytes so far.) *)
(***************************************************************************)
Violates(k) ==
    LET t == tokens[k]
        n == TokensLen(tokens, k - 1)
    IN  IF IsMatch(t)
        THEN t.offset > n \/ n + t.length > max_output_len
        ELSE n + 1 > max_output_len

ErrorOf(k) ==
    LET t == tokens[k]
        n == TokensLen(tokens, k - 1)
    IN  IF IsMatch(t) /\ t.offset > n
        THEN [kind |-> "InvalidOffset", idx |-> n, offset |-> t.offset]
        ELSE [kind |-> "MaximumSizeExceeded"]

FirstViolator ==
    CHOOSE k \in 1..Len(tokens) : Violates(k) /\ \A j \in 1..(k - 1) : ~Violates(j)

FailFastOrdering ==
    (/\ dstate = "done"
     /\ \E k \in 1..Len(tokens) : Violates(k)
     /\ ValidOffsets(FirstViolator - 1))
        => /\ result = ErrorOf(FirstViolator)
           /\ Consumed = FirstViolator

(***************************************************************************)
(* C12  MatchMap freshness: with strictly increasing add_prefix positions  *)
(* and non-decreasing advance positions, right after advance(new_position) *)
(* get_match(key) never returns a position < new_position -                *)
(* max_match_offset; it returns the most recent position recorded for key  *)
(* by add_prefix if that position is >= max(0, new_position -              *)
(* max_match_offset), and none otherwise.                                  *)
(***************************************************************************)
FreshAfterAdvance ==
    LET new_position == calls.last_advance[1]
        cull == saturating_sub(new_position, matches.max_match_offset)
    IN  \A key \in Keys :
            LET got == MatchMap_get_match(matches, key)
            IN  /\ got # None => got[1] >= new_position - matches.max_match_offset
                /\ IF key \in DOMAIN calls.recorded /\ calls.recorded[key] >= cull
                   THEN got = Some(calls.recorded[key])
                   ELSE got = None

MatchMapFreshness ==
    (calls.after_advance /\ calls.monotone) => FreshAfterAdvance

\* the statement for any order of the advance positions
MatchMapFreshnessAnyAdvance ==
    calls.after_advance => FreshAfterAdvance

\* after an advance: one key answered with its latest position although an
\* older record of it was culled, another key culled altogether
MatchMapFreshnessWitness ==
    /\ calls.after_advance
    /\ calls.monotone
    /\ calls.last_advance[1] > matches.max_match_offset
    /\ \E key \in Keys :
          /\ key \in DOMAIN calls.recorded
          /\ MatchMap_get_match(matches, key) = Some(calls.recorded[key])
          /\ \A e \in 1..Len(matches.entries) : matches.entries[e][1] = key
          /\ Len(matches.entries) = 1
    /\ \E key \in Keys :
          /\ key \in DOMAIN calls.recorded
          /\ MatchMap_get_match(matches, key) = None

(***************************************************************************)
(* C16  Expiry rule equivalence: in every state of a MatchMap reached by   *)
(* add_prefix calls with strictly increasing positions and advance calls,  *)
(* advance(new_position) with the implemented expiry (delete the key when  *)
(* the mapping's value is < cull) leaves the same queue and the same       *)
(* mapping as with the specified expiry (delete the key only when the      *)
(* mapping's value is the removed entry's position), for every             *)
(* new_position.                                                           *)
(***************************************************************************)
\* the specified closure: delete only a mapping that points at the entry
cull_entry_exact(m, f) ==
    IF f[1] \in DOMAIN m /\ m[f[1]] = f[2] THEN HashMap_remove(m, f[1]) ELSE m

RECURSIVE drain_exact(_, _)
drain_exact(m, drained) ==
    IF drained = <<>> THEN m
    ELSE drain_exact(cull_entry_exact(m, Head(drained)), Tail(drained))

\* the specified advance
advance_exact(mm, new_idx) ==
    LET cull == saturating_sub(new_idx, mm.max_match_offset)
        stale == {e \in 1..Len(mm.entries) :
                     \A j \in 1..e : mm.entries[j][2] < cull}
    IN  [mm EXCEPT
           !.entries = SubSeq(mm.entries, Cardinality(stale) + 1, Len(mm.entries)),
           !.matches = drain_exact(mm.matches, SubSeq(mm.entries, 1, Cardinality(stale)))]

ExpiryEquivalence ==
    \A new_idx \in Positions :
        MatchMap_advance(matches, new_idx) = advance_exact(matches, new_idx)

\* an advance that culls a stale record of a key whose mapping has been
\* overwritten by an occurrence still in the window, and keeps the mapping
ExpiryEquivalenceWitness ==
    \E new_idx \in Positions :
        LET cull == saturating_sub(new_idx, matches.max_match_offset)
            after == MatchMap_advance(matches, new_idx)
        IN  /\ matches.entries # <<>>
            /\ Head(matches.entries)[2] < cull
            /\ Head(matches.entries)[1] \in DOMAIN matches.matches
            /\ matches.matches[Head(matches.entries)[1]] >= cull
            /\ after.matches = matches.matches
            /\ Len(after.entries) < Len(matches.entries)

(***************************************************************************)
(* C13  Greedy most-recent candidate: at a cursor position idx where a     *)
(* match is attempted (remaining > min_match_len and remaining >           *)
(* end_literals), a fresh Compressor emits a Match if and only if some     *)
(* earlier token-start position p with idx - p <= max_match_offset has the *)
(* same min_match_len-byte window as idx, and then offset = idx - p for    *)
(* the greatest such p; otherwise it emits Literal(byte at idx).           *)
(***************************************************************************)
\* a match is attempted at cursor position a
Attempted(a) ==
    /\ Len(data) - a > settings.min_match_len
    /\ Len(data) - a > settings.end_literals

\* the token-start positions before the k-th token that are in the window of
\* its cursor position and carry the same key
Candidates(k) ==
    {p \in {emitted[j].at : j \in 1..(k - 1)} :
        /\ emitted[k].at - p <= settings.max_match_offset
        /\ KeyAt(p) = KeyAt(emitted[k].at)}

Greatest(S) == CHOOSE p \in S : \A q \in S : q <= p

GreedyMostRecent ==
    \A k \in 1..Len(emitted) :
        LET a == emitted[k].at
            t == emitted[k].token
        IN  Attempted(a) =>
                IF Candidates(k) # {}
                THEN IsMatch(t) /\ t.offset = a - Greatest(Candidates(k))
                ELSE t = Literal(data[a + 1])

\* a Match emitted where two earlier token starts in the window carry the key
GreedyMostRecentWitness ==
    \E k \in 1..Len(emitted) :
        /\ Attempted(emitted[k].at)
        /\ Cardinality(Candidates(k)) >= 2
        /\ IsMatch(emitted[k].token)

(***************************************************************************)
(* C14  Match extension: the length of an emitted Match at cursor idx with *)
(* source position p is the largest L such that input[idx+k] = input[p+k]  *)
(* for all 0 <= k < L and idx + L <= input length; L may exceed idx - p,   *)
(* and never runs past the end of the input.                               *)
(***************************************************************************)
\* L bytes from cursor a and from source p agree and stay inside the input
Agree(a, p, L) ==
    /\ a + L <= Len(data)
    /\ \A j \in 0..(L - 1) : data[a + j + 1] = data[p + j + 1]

RECURSIVE EmittedLen(_, _)
EmittedLen(es, k) ==
    IF k = 0 THEN 0
    ELSE EmittedLen(es, k - 1)
         + (IF IsMatch(es[k].token) THEN es[k].token.length ELSE 1)

CursorInvariant ==
    [][/\ idx' = EmittedLen(emitted', Len(emitted'))
       /\ idx' >= idx
       /\ idx' <= Len(data)
       /\ cstate' = "done" => idx' = Len(data)
       /\ CompressorNext => (cstate' = "done" <=> idx = Len(data))]_vars

\* the sequence has ended after a Match of two or more bytes and other tokens
CursorInvariantWitness ==
    /\ cstate = "done"
    /\ idx = Len(data)
    /\ Len(emitted) >= 3
    /\ \E k \in 1..Len(emitted) :
          IsMatch(emitted[k].token) /\ emitted[k].token.length >= 2

(***************************************************************************)
(* C15  MatchMap structural invariant: in every state reachable by driving *)
(* a Compressor through any sequence of next steps and reset calls, the    *)
(* queue's positions are strictly increasing from front to back, every     *)
(* queue entry (key, p) has the key in the mapping with a value >= p, and  *)
(* every mapping entry (key, v) has a queue entry (key, v).                *)
(***************************************************************************)
QueueIncreasing ==
    \A e, f \in 1..Len(matches.entries) :
        e < f => matches.entries[e][2] < matches.entries[f][2]

QueueCovered ==
    \A e \in 1..Len(matches.entries) :
        /\ matches.entries[e][1] \in DOMAIN matches.matches
        /\ matches.matches[matches.entries[e][1]] >= matches.entries[e][2]

MappingBacked ==
    \A key \in DOMAIN matches.matches :
        \E e \in 1..Len(matches.entries) :
            matches.entries[e] = <<key, matches.matches[key]>>

MatchMapStructure == QueueIncreasing /\ QueueCovered /\ MappingBacked

(***************************************************************************)
(* C18  Reset frame effect: Compressor.reset sets the cursor idx to 0 and  *)
(* leaves the MatchMap (queue and mapping), the input buffer and the       *)
(* settings unchanged.                                                     *)
(***************************************************************************)
ResetFrame ==
    [][Len(rewinds') > Len(rewinds) =>
          /\ idx' = 0
          /\ matches' = matches
          /\ data' = data
          /\ settings' = settings]_vars

\* just after a reset made past the start, with records left in the MatchMap
ResetFrameWitness ==
    /\ rewinds # <<>>
    /\ rewinds[Len(rewinds)].at > 0
    /\ idx = 0
    /\ emitted = <<>>
    /\ matches.entries # <<>>
    /\ matches.matches # EmptyMap

(***************************************************************************)
(* C19  Re-drive after rewind: if a Compressor is driven to the end of its *)
(* input, rewound with reset and driven to the end again, every Match of   *)
(* the second pass has 1 <= offset <= the cursor position at which it was  *)
(* emitted (computing idx - p never goes below zero), and the second       *)
(* pass's token sequence decompresses to the original input.               *)
(***************************************************************************)
\* the second pass: one rewind so far, made at the end of the first pass
SecondPass == Len(rewinds) = 1 /\ rewinds[1].done

RedriveSound ==
    SecondPass =>
        /\ cstate # "panic"
        /\ \A k \in 1..Len(emitted) :
              IsMatch(emitted[k].token) =>
                  /\ 1 <= emitted[k].token.offset
                  /\ emitted[k].token.offset <= emitted[k].at
        /\ (cstate = "done" /\ dstate = "done" /\ max_output_len >= Len(data)) =>
              result = [kind |-> "Ok", buf |-> data]

(***************************************************************************)
(* C20  Size check under machine arithmetic: with w-bit unsigned lengths,  *)
(* a Match with a valid offset whose length makes (current output length + *)
(* length) mathematically exceed max_output_len is rejected with           *)
(* MaximumSizeExceeded also when that sum wraps modulo 2^w; decompress     *)
(* never accepts such a token and never returns success with fewer bytes   *)
(* appended than the token's length.                                       *)
(***************************************************************************)
\* the next token is a Match with a valid offset that is too long for the
\* room left, the sum taken as a mathematical integer
OversizedMatchNext ==
    /\ dstate = "fetch"
    /\ source # <<>>
    /\ IsMatch(Head(source))
    /\ Head(source).offset <= Len(output_buf)
    /\ Len(output_buf) + Head(source).length > max_output_len

MachineSizeCheck ==
    [][/\ OversizedMatchNext => /\ dstate' = "done"
                                /\ result' = [kind |-> "MaximumSizeExceeded"]
       /\ result'.kind = "Ok" =>
             Len(result'.buf) = TokensLen(tokens', Len(tokens'))]_vars

====
